---- MODULE Spec2Model ----
(***************************************************************************)
(* Model of the web3_vanity search programs:                               *)
(*   src/vanity_byaddress.py  (legacy CREATE: private key -> sender ->     *)
(*                             contract address at nonce 0)                *)
(*   src/vanity_create2.py    (CREATE2: deployer + salt + bytecode hash)   *)
(*                                                                         *)
(* Byte strings are sequences of 0..255.  Text strings are sequences of    *)
(* one-character strings, so that indexing, slicing and case conversion    *)
(* are computed as the Python code computes them.                          *)
(***************************************************************************)
EXTENDS Integers, Sequences, FiniteSets, TLC

(***************************************************************************)
(* Text and byte-string primitives (Python built-ins used by the code)     *)
(***************************************************************************)

\* digits of bytes.hex(): lowercase
HexDigits == <<"0","1","2","3","4","5","6","7","8","9","a","b","c","d","e","f">>

\* value of a hexadecimal digit character, -1 when the character is none
HexVal(c) ==
  CASE c = "0" -> 0 [] c = "1" -> 1 [] c = "2" -> 2 [] c = "3" -> 3
    [] c = "4" -> 4 [] c = "5" -> 5 [] c = "6" -> 6 [] c = "7" -> 7
    [] c = "8" -> 8 [] c = "9" -> 9
    [] c \in {"a","A"} -> 10 [] c \in {"b","B"} -> 11 [] c \in {"c","C"} -> 12
    [] c \in {"d","D"} -> 13 [] c \in {"e","E"} -> 14 [] c \in {"f","F"} -> 15
    [] OTHER -> -1

\* str.upper() on one character
UpperChar(c) ==
  CASE c = "a" -> "A" [] c = "b" -> "B" [] c = "c" -> "C" [] c = "d" -> "D"
    [] c = "e" -> "E" [] c = "f" -> "F" [] c = "g" -> "G" [] c = "x" -> "X"
    [] OTHER -> c

\* str.lower() on one character
LowerChar(c) ==
  CASE c = "A" -> "a" [] c = "B" -> "b" [] c = "C" -> "c" [] c = "D" -> "d"
    [] c = "E" -> "e" [] c = "F" -> "f" [] c = "G" -> "g" [] c = "X" -> "x"
    [] OTHER -> c

upper(s) == [i \in 1..Len(s) |-> UpperChar(s[i])]

lower(s) == [i \in 1..Len(s) |-> LowerChar(s[i])]

\* s[:n]
Take(s, n) == SubSeq(s, 1, IF n < Len(s) THEN n ELSE Len(s))

\* s[n:]  (n counted from 0 as in Python)
Drop(s, n) == SubSeq(s, n + 1, Len(s))

\* s[-n:]
Last(s, n) == SubSeq(s, Len(s) - n + 1, Len(s))

\* str.startswith
startswith(s, p) == Len(p) <= Len(s) /\ SubSeq(s, 1, Len(p)) = p

\* bytes.hex(): two lowercase digits per byte
hex(bs) ==
  [i \in 1..(2 * Len(bs)) |->
     IF i % 2 = 1 THEN HexDigits[(bs[(i + 1) \div 2] \div 16) + 1]
                  ELSE HexDigits[(bs[i \div 2] % 16) + 1]]

\* the outcome "raises ValueError" of a call that returns bytes: no byte string
ValueError == <<-1>>

RECURSIVE FromHexFrom(_, _, _)
\* bytes.fromhex from position i on: whitespace is skipped before each pair of
\* digits, a pair must be two hexadecimal digits
FromHexFrom(s, i, acc) ==
  IF i > Len(s) THEN acc
  ELSE IF s[i] = " " THEN FromHexFrom(s, i + 1, acc)
  ELSE IF i + 1 > Len(s) \/ HexVal(s[i]) < 0 \/ HexVal(s[i + 1]) < 0 THEN ValueError
  ELSE FromHexFrom(s, i + 2, Append(acc, 16 * HexVal(s[i]) + HexVal(s[i + 1])))

fromhex(s) == FromHexFrom(s, 1, <<>>)

RECURSIVE ReplaceFrom(_, _)
\* str.replace("0x", ""): every occurrence, left to right, non-overlapping
ReplaceFrom(s, i) ==
  IF i > Len(s) THEN <<>>
  ELSE IF i < Len(s) /\ s[i] = "0" /\ s[i + 1] = "x" THEN ReplaceFrom(s, i + 2)
  ELSE <<s[i]>> \o ReplaceFrom(s, i + 1)

replace0x(s) == ReplaceFrom(s, 1)

\* str.zfill(width): left-pad with "0" (no sign characters occur in the inputs)
zfill(s, width) ==
  IF Len(s) >= width THEN s ELSE [i \in 1..(width - Len(s)) |-> "0"] \o s

\* ASCII code of a character of a lowercase hexadecimal string (str.encode)
Ascii(c) == IF HexVal(c) < 10 THEN 48 + HexVal(c) ELSE 87 + HexVal(c)

(***************************************************************************)
(* External primitives (coincurve, eth_utils).  The hash and the curve     *)
(* multiplication are stand-ins with the libraries' input/output contract: *)
(* total and deterministic, fixed output length, and a value that depends  *)
(* on every input byte and on the input's length.                          *)
(***************************************************************************)

\* length of a private key and of a salt: os.urandom(32)
KEY_LEN == 32

\* length of a Keccak-256 digest
HASH_LEN == 32

\* length of an address: keccak(...)[-20:]
ADDR_LEN == 20

\* number of hexadecimal digits of a deployer address: zfill(40)
ADDR_HEX_LEN == 40

\* weight of position i in the stand-in hash
Weight(i) == (31 * i * i + 17 * i + 5) % 8191

RECURSIVE Absorb(_, _, _)
\* position-weighted sum of the bytes bs[lo..hi], by halves
Absorb(bs, lo, hi) ==
  IF lo > hi THEN 0
  ELSE IF lo = hi THEN ((bs[lo] + 1) * Weight(lo)) % 1000003
  ELSE LET mid == (lo + hi) \div 2
       IN  (Absorb(bs, lo, mid) + Absorb(bs, mid + 1, hi)) % 1000003

\* eth_utils.keccak: bytes -> HASH_LEN bytes
keccak(bs) ==
  LET st == (Absorb(bs, 1, Len(bs)) + 7919 * Len(bs) + 17) % 1000003
  IN  [j \in 1..HASH_LEN |-> ((st * (2 * j + 1) + 977 * j * j + 13) \div 16) % 256]

\* the order of the secp256k1 group, big-endian
CurveOrder ==
  <<255,255,255,255, 255,255,255,255, 255,255,255,255, 255,255,255,254,
    186,174,220,230, 175, 72,160, 59, 191,210, 94,140, 208, 54, 65, 65>>

RECURSIVE LessFrom(_, _, _)
\* big-endian comparison a < b of two byte strings of equal length
LessFrom(a, b, i) ==
  IF i > Len(a) THEN FALSE
  ELSE IF a[i] < b[i] THEN TRUE
  ELSE IF a[i] > b[i] THEN FALSE
  ELSE LessFrom(a, b, i + 1)

\* a secret is valid when 0 < secret < CurveOrder
ValidSecret(k) ==
  /\ Len(k) = KEY_LEN
  /\ \E i \in 1..Len(k) : k[i] # 0
  /\ LessFrom(k, CurveOrder, 1)

\* coincurve.PublicKey.from_valid_secret(k).format(compressed=False):
\* format byte 0x04 followed by 64 bytes; raises ValueError on an invalid secret
PublicKeyFormat(k) ==
  IF ~ValidSecret(k) THEN ValueError
  ELSE LET st == (Absorb(k, 1, Len(k)) + 65537) % 1000003
       IN  <<4>> \o [j \in 1..(2 * KEY_LEN) |-> ((st * (2 * j + 3) + 389 * j * j + 7) \div 8) % 256]

\* eth_utils.to_checksum_address on '0x' + 40 lowercase hexadecimal digits:
\* digit i is uppercased iff nibble i of keccak(text of the 40 digits) is > 7
to_checksum_address(value) ==
  LET norm == lower(value)
      digits == Drop(norm, 2)
      address_hash == hex(keccak([i \in 1..Len(digits) |-> Ascii(digits[i])]))
  IN  <<"0", "x">> \o
      [i \in 1..Len(digits) |->
         IF HexVal(address_hash[i]) > 7 THEN UpperChar(digits[i]) ELSE digits[i]]

(***************************************************************************)
(* Address derivation                                                      *)
(***************************************************************************)

\* vanity_byaddress.generate_address_from_private_key
generate_address_from_private_key(private_key_bytes) ==
  LET public_key == PublicKeyFormat(private_key_bytes)
  IN  IF public_key = ValueError THEN ValueError
      ELSE Last(keccak(Drop(public_key, 1)), ADDR_LEN)

\* an encoding that has no case for nonce 0: the nonce byte as it is
ContractPreimagePlainNonce(sender_bytes, nonce) ==
  IF nonce \in 0..255 THEN <<214, 148>> \o sender_bytes \o <<nonce>>
  ELSE ValueError

\* the byte string get_contract_address hashes; bytes([nonce]) raises
\* ValueError for a nonce outside range(256)
ContractPreimage(sender_bytes, nonce) ==
  IF nonce = 0 THEN <<214, 148>> \o sender_bytes \o <<128>>
  ELSE IF nonce \in 1..255 THEN <<214, 148>> \o sender_bytes \o <<nonce>>
  ELSE ValueError

\* vanity_byaddress.get_contract_address
get_contract_address(sender_bytes, nonce) ==
  LET hashed == ContractPreimage(sender_bytes, nonce)
  IN  IF hashed = ValueError THEN ValueError
      ELSE Last(keccak(hashed), ADDR_LEN)

\* vanity_create2.FF_CONSTANT
FF_CONSTANT == <<255>>

\* the byte string calculate_create2_address_optimized hashes
Create2Preimage(deployer_bytes, salt_bytes, bytecode_bytes) ==
  FF_CONSTANT \o deployer_bytes \o salt_bytes \o bytecode_bytes

\* vanity_create2.calculate_create2_address_optimized
calculate_create2_address_optimized(deployer_bytes, salt_bytes, bytecode_bytes) ==
  Last(keccak(Create2Preimage(deployer_bytes, salt_bytes, bytecode_bytes)), ADDR_LEN)

(***************************************************************************)
(* Bounds of the model and the inputs it enumerates                        *)
(***************************************************************************)

\* largest worker count tried (num_processes)
MaxProcs == 2

\* largest per-round iteration budget tried in vanity_byaddress (chunk_size)
MaxChunk == 3

\* rounds after which the model stops dispatching
MaxRounds == 3

\* os.urandom draws the 32-byte big-endian encodings of 0..MaxSecret
MaxSecret == 2

\* a round takes between 0 and MaxRoundTicks ticks of the clock
MaxRoundTicks == 1

\* the nonce arguments tried run from -1 to MaxNonce: 0..255 fit one byte
MaxNonce == 256

\* vanity_byaddress.BATCH_SIZE (1000 in the source, scaled to the model)
BATCH_SIZE == 2

\* vanity_create2: chunk_size (100_000 in the source, scaled to the model)
CHUNK_SIZE == 2

\* vanity_create2: progress is printed when iterations % 1_000_000 == 0
\* (scaled with CHUNK_SIZE to the model)
PROGRESS_EVERY == 4

\* vanity_byaddress: print_interval = 1.0, in ticks of the clock (seconds)
print_interval == 1

\* Python's None, and the empty result
None == <<>>

\* the 32-byte big-endian encoding of a small number
SecretOf(v) == [i \in 1..KEY_LEN |-> IF i = KEY_LEN THEN v ELSE 0]

\* the values a 32-byte draw of os.urandom takes in the model
Candidates == {SecretOf(v) : v \in 0..MaxSecret}

RECURSIVE urandom(_)
\* os.urandom(n), n a multiple of KEY_LEN: every concatenation of draws
urandom(n) ==
  IF n <= 0 THEN {<<>>}
  ELSE {k \o r : k \in Candidates, r \in urandom(n - KEY_LEN)}

\* requested prefixes: empty, marker only, without the marker, right and wrong
\* letter case, trailing blank, an odd number of digits, a non-hexadecimal digit
PrefixInputs ==
  { <<>>,
    <<"0","x">>,
    <<"b","8">>,
    <<"0","x","b","8">>,
    <<"0","x","B","8">>,
    <<"0","x","b","8"," ">>,
    <<"8","f">>,
    <<"0","x","b">>,
    <<"0","x","g","1">> }

\* vanity_create2.run: the deployer literal
DeployerLiteral ==
  <<"0","x","4","e","5","9","b","4","4","8","4","7","b","3","7","9","5","7","8","5",
    "8","8","9","2","0","c","A","7","8","F","b","F","2","6","c","0","B","4","9","5",
    "6","C">>

\* vanity_create2.run: the bytecode_hash literal
BytecodeLiteral ==
  <<"3","b","a","2","8","3","7","b","9","2","a","4","8","b","7","0",
    "f","a","d","a","5","6","d","2","8","b","b","2","4","d","d","6",
    "b","c","2","9","3","1","0","8","5","d","0","7","0","2","6","c",
    "0","6","e","5","9","7","7","a","c","5","f","e","3","d","0","7">>

\* deployer inputs: the literal, a short one, one byte too long, not hexadecimal
DeployerInputs ==
  { DeployerLiteral,
    <<"0","x","1","2">>,
    DeployerLiteral \o <<"0","0">>,
    <<"0","x","z","z">> }

\* bytecode inputs: the literal (32 bytes), one byte, not hexadecimal
BytecodeInputs ==
  { BytecodeLiteral,
    <<"6","0">>,
    <<"z","z">> }

(***************************************************************************)
(* The derivations over the values the model draws, computed once          *)
(***************************************************************************)

\* '0x' + address_bytes.hex(), checksum-encoded
ChecksumOf(address_bytes) == to_checksum_address(<<"0","x">> \o hex(address_bytes))

\* if not vanity_prefix.startswith("0x"): vanity_prefix = "0x" + vanity_prefix
NormalizePrefix(p) == IF startswith(p, <<"0","x">>) THEN p ELSE <<"0","x">> \o p

\* deployer.lower().replace("0x", "").zfill(40), then bytes.fromhex
DeployerBytes(d) == fromhex(zfill(replace0x(lower(d)), ADDR_HEX_LEN))

RECURSIVE Tabulate(_, _)
\* the function x |-> F(x) on the finite set S, as an explicit table
Tabulate(F(_), S) ==
  IF S = {} THEN <<>>
  ELSE LET x == CHOOSE x \in S : TRUE
       IN  (x :> F(x)) @@ Tabulate(F, S \ {x})

\* generate_address_from_private_key on every draw
SenderOf == Tabulate(generate_address_from_private_key, Candidates)

\* get_contract_address(sender_bytes) (nonce defaults to 0) for the sender of
\* every valid draw
ContractOf ==
  Tabulate(LAMBDA k : get_contract_address(SenderOf[k], 0),
           {c \in Candidates : SenderOf[c] # ValueError})

\* deployer_bytes (or the ValueError) for every deployer argument
DeployerTable == Tabulate(DeployerBytes, DeployerInputs)

\* bytes.fromhex(bytecode) (or the ValueError) for every bytecode argument
BytecodeTable == Tabulate(fromhex, BytecodeInputs)

\* the deployer and bytecode byte strings INIT accepts
DeployerValues == {DeployerTable[d] : d \in DeployerInputs} \ {ValueError}

BytecodeValues == {BytecodeTable[b] : b \in BytecodeInputs} \ {ValueError}

\* calculate_create2_address_optimized(deployer_bytes, salt_bytes, bytecode_bytes)
\* on every accepted context and draw, indexed by <<deployer, salt, bytecode>>
Create2Of ==
  Tabulate(LAMBDA t : calculate_create2_address_optimized(t[1], t[2], t[3]),
           DeployerValues \X Candidates \X BytecodeValues)

\* the addresses the searches derive
Addresses ==
  {SenderOf[k] : k \in DOMAIN ContractOf}
    \cup {ContractOf[k] : k \in DOMAIN ContractOf}
    \cup {Create2Of[t] : t \in DOMAIN Create2Of}

\* to_checksum_address on every derived address
ChecksumTable == Tabulate(ChecksumOf, Addresses)

(***************************************************************************)
(* State                                                                   *)
(***************************************************************************)

VARIABLES
  mode,            \* which program runs: "byaddress" or "create2"
  prefix_arg,      \* the vanity_prefix argument as the caller passed it
  vanity_prefix,   \* find_vanity_address_parallel: the prefix, normalized at INIT
  deployer,        \* create2: the deployer argument
  bytecode,        \* create2: the bytecode argument
  num_processes,   \* worker count
  chunk_size,      \* per-round iteration budget of one worker
  prefix_bytes,    \* byaddress: bytes.fromhex(vanity_prefix[2:])
  deployer_bytes,  \* create2
  bytecode_bytes,  \* create2
  args,            \* the task tuples, one per worker
  pc,              \* the coordinator's position
  pool,            \* the ProcessPoolExecutor: "none", "open", "shutdown"
  now,             \* the wall clock, in ticks
  start_time,
  last_print,      \* byaddress
  iterations,
  rounds,          \* rounds whose results have been collected
  results,         \* the results of list(executor.map(...)) collected so far
  worker,          \* the worker processes' tasks in flight
  returned,        \* the value find_vanity_address_parallel returned, or None
  raised,          \* the exception find_vanity_address_parallel raised, "" if none
  printed,         \* the throughput reports printed so far
  probe            \* the one call of get_contract_address under observation

vars ==
  <<mode, prefix_arg, vanity_prefix, deployer, bytecode, num_processes, chunk_size,
    prefix_bytes, deployer_bytes, bytecode_bytes, args, pc, pool, now,
    start_time, last_print, iterations, rounds, results, worker, returned,
    raised, printed, probe>>

inputs == <<mode, prefix_arg, deployer, bytecode, num_processes>>

Workers == 1..num_processes

\* no exception
NoError == ""

\* a worker process with no task
IdleWorker ==
  [st |-> "idle", task |-> None, batch_start |-> 0, random_bytes |-> None,
   drawn |-> <<>>, i |-> 0, examined |-> 0, cand |-> None, fast |-> FALSE, hit |-> FALSE,
   result |-> None]

\* the call of find_vanity_address_parallel: its arguments, nothing computed yet
Init ==
  /\ mode \in {"byaddress", "create2"}
  /\ prefix_arg \in PrefixInputs
  /\ vanity_prefix = prefix_arg
  /\ num_processes \in 0..MaxProcs
  /\ IF mode = "byaddress"
       THEN /\ chunk_size \in 0..MaxChunk
            /\ deployer = None
            /\ bytecode = None
       ELSE /\ chunk_size = 0
            /\ deployer \in DeployerInputs
            /\ bytecode \in BytecodeInputs
  /\ prefix_bytes = None
  /\ deployer_bytes = None
  /\ bytecode_bytes = None
  /\ args = <<>>
  /\ pc = "init"
  /\ pool = "none"
  /\ now = 0
  /\ start_time = 0
  /\ last_print = 0
  /\ iterations = 0
  /\ rounds = 0
  /\ results = <<>>
  /\ worker = [w \in 1..num_processes |-> IdleWorker]
  /\ returned = None
  /\ raised = NoError
  /\ printed = <<>>
  /\ probe = None

(***************************************************************************)
(* Coordinator: INIT                                                       *)
(***************************************************************************)

\* the function raises: nothing is returned, the position is final
Raise(e) ==
  /\ pc' = "error"
  /\ raised' = e

\* ProcessPoolExecutor(max_workers=num_processes) and entry of the with block
OpenPool ==
  IF num_processes <= 0
    THEN /\ Raise("ValueError: max_workers must be greater than 0")
         /\ pool' = pool
    ELSE /\ pool' = "open"
         /\ pc' = "map"
         /\ raised' = raised

\* vanity_byaddress.find_vanity_address_parallel, up to the round loop
FindInitByAddress ==
  /\ pc = "init"
  /\ mode = "byaddress"
  /\ LET vp == NormalizePrefix(vanity_prefix)
         pb == fromhex(Drop(vp, 2))
     IN  /\ vanity_prefix' = vp
         /\ IF pb = ValueError
              THEN /\ Raise("ValueError: Invalid hex prefix")
                   /\ UNCHANGED <<prefix_bytes, args, start_time, last_print, pool>>
              ELSE /\ prefix_bytes' = pb
                   /\ args' = [w \in 1..num_processes |-> <<pb, vp, chunk_size>>]
                   /\ start_time' = now
                   /\ last_print' = now
                   /\ OpenPool
  /\ iterations' = 0
  /\ UNCHANGED <<probe, inputs, chunk_size, deployer_bytes, bytecode_bytes, now, rounds,
                 results, worker, returned, printed>>

\* vanity_create2.find_vanity_address_parallel, up to the round loop
FindInitCreate2 ==
  /\ pc = "init"
  /\ mode = "create2"
  /\ LET db == DeployerTable[deployer]
         bb == BytecodeTable[bytecode]
         vp == NormalizePrefix(vanity_prefix)
     IN  IF db = ValueError \/ bb = ValueError
           THEN /\ Raise("ValueError: non-hexadecimal number found in fromhex()")
                /\ deployer_bytes' = IF db = ValueError THEN deployer_bytes ELSE db
                /\ UNCHANGED <<bytecode_bytes, vanity_prefix, chunk_size, args,
                               start_time, pool>>
           ELSE /\ deployer_bytes' = db
                /\ bytecode_bytes' = bb
                /\ vanity_prefix' = vp
                /\ chunk_size' = CHUNK_SIZE
                /\ args' = [w \in 1..num_processes |-> <<db, bb, vp, CHUNK_SIZE>>]
                /\ start_time' = now
                /\ OpenPool
  /\ iterations' = 0
  /\ UNCHANGED <<probe, inputs, prefix_bytes, last_print, now, rounds, results, worker,
                 returned, printed>>

(***************************************************************************)
(* Coordinator: DISPATCH                                                   *)
(***************************************************************************)

\* a dispatch that hands every worker but the first a budget larger by one
DispatchUnequalTasks ==
  /\ pc = "map"
  /\ rounds < MaxRounds
  /\ worker' = [w \in Workers |->
                  [IdleWorker EXCEPT
                     !.st = "running",
                     !.task = IF w = 1 THEN args[w]
                              ELSE [args[w] EXCEPT ![Len(args[w])] = @ + 1]]]
  /\ results' = <<>>
  /\ pc' = "collect"
  /\ UNCHANGED <<probe, inputs, vanity_prefix, chunk_size, prefix_bytes, deployer_bytes,
                 bytecode_bytes, args, pool, now, start_time, last_print,
                 iterations, rounds, returned, raised, printed>>

\* executor.map(search_chunk, args): every task is submitted at once and runs
Dispatch ==
  /\ pc = "map"
  /\ rounds < MaxRounds
  /\ worker' = [w \in Workers |-> [IdleWorker EXCEPT !.st = "running", !.task = args[w]]]
  /\ results' = <<>>
  /\ pc' = "collect"
  /\ UNCHANGED <<probe, inputs, vanity_prefix, chunk_size, prefix_bytes, deployer_bytes,
                 bytecode_bytes, args, pool, now, start_time, last_print,
                 iterations, rounds, returned, raised, printed>>

(***************************************************************************)
(* Worker search loops                                                     *)
(***************************************************************************)

\* a batch that is always full, whatever is left of the budget
MinIgnoringRest(a, b) == a

Min(a, b) == IF a < b THEN a ELSE b

\* stage (a) with the prefix side left in lowercase: .upper() on one side only
FastCheckOneSided(contract_bytes, pb) ==
  upper(hex(Take(contract_bytes, Len(pb)))) = hex(pb)

\* vanity_byaddress.search_chunk, stage (a):
\* contract_bytes[:prefix_len].hex().upper() == prefix_bytes.hex().upper()
FastCheck(contract_bytes, pb) ==
  upper(hex(Take(contract_bytes, Len(pb)))) = upper(hex(pb))

\* stage (b) left out: the byte-level comparison alone decides
ChecksumCheckSkipped(contract_bytes, prefix_str) == TRUE

\* vanity_byaddress.search_chunk, stage (b): contract_addr.startswith(prefix_str)
ChecksumCheck(contract_bytes, prefix_str) ==
  startswith(ChecksumTable[contract_bytes], prefix_str)

\* a filter that takes an empty prefix for "nothing to match"
MatchesNonEmpty(contract_bytes, pb, prefix_str) ==
  /\ Len(pb) > 0
  /\ FastCheck(contract_bytes, pb)
  /\ ChecksumCheck(contract_bytes, prefix_str)

\* the two-stage candidate filter of vanity_byaddress.search_chunk
Matches(contract_bytes, pb, prefix_str) ==
  FastCheck(contract_bytes, pb) /\ ChecksumCheck(contract_bytes, prefix_str)

\* the candidate filter of vanity_create2.search_chunk
MatchesCreate2(address_bytes, prefix_str) ==
  startswith(ChecksumTable[address_bytes], prefix_str)

\* a return that hands back the last candidate examined when nothing matched
WorkerReturnLastCandidate(w, r) ==
  [worker[w] EXCEPT
     !.st = "returned",
     !.result =
       IF r # None \/ worker[w].cand = None THEN r
       ELSE IF mode = "byaddress"
         THEN <<hex(worker[w].cand), ChecksumTable[SenderOf[worker[w].cand]],
                ChecksumTable[ContractOf[worker[w].cand]]>>
         ELSE hex(worker[w].cand)]

\* return r from search_chunk
WorkerReturn(w, r) == [worker[w] EXCEPT !.st = "returned", !.result = r]

\* vanity_byaddress.search_chunk, head of the batch loop: the budget is
\* exhausted and None is returned, or the next batch of random bytes is drawn
SearchChunkBatch(w) ==
  /\ mode = "byaddress"
  /\ worker[w].st = "running"
  /\ worker[w].random_bytes = None
  /\ LET budget == worker[w].task[3]
         batch_start == worker[w].batch_start
         batch_size == Min(BATCH_SIZE, budget - batch_start)
     IN  IF batch_start >= budget
           THEN worker' = [worker EXCEPT ![w] = WorkerReturn(w, None)]
           ELSE \E rb \in urandom(KEY_LEN * batch_size) :
                  worker' = [worker EXCEPT ![w].random_bytes = rb,
                                           ![w].drawn = @ \o rb,
                                           ![w].i = 0]
  /\ UNCHANGED <<probe, inputs, vanity_prefix, chunk_size, prefix_bytes, deployer_bytes,
                 bytecode_bytes, args, pc, pool, now, start_time, last_print,
                 iterations, rounds, results, returned, raised, printed>>

\* a slice that is taken at the start of the batch in every iteration
KeySliceFirst(random_bytes, i) == SubSeq(random_bytes, 1, KEY_LEN)

\* random_bytes[i * 32:(i + 1) * 32]
KeySlice(random_bytes, i) == SubSeq(random_bytes, i * KEY_LEN + 1, (i + 1) * KEY_LEN)

\* vanity_byaddress.search_chunk, one iteration of the inner loop
SearchChunkExamine(w) ==
  /\ mode = "byaddress"
  /\ worker[w].st = "running"
  /\ worker[w].random_bytes # None
  /\ LET pb == worker[w].task[1]
         prefix_str == worker[w].task[2]
         budget == worker[w].task[3]
         batch_start == worker[w].batch_start
         batch_size == Min(BATCH_SIZE, budget - batch_start)
         i == worker[w].i
         private_key_bytes == KeySlice(worker[w].random_bytes, i)
         sender_bytes == SenderOf[private_key_bytes]
         contract_bytes == ContractOf[private_key_bytes]
         seen == [worker[w] EXCEPT !.examined = @ + 1, !.cand = private_key_bytes]
     IN  IF sender_bytes = ValueError
           THEN worker' = [worker EXCEPT ![w] = [seen EXCEPT !.st = "raised"]]
           ELSE IF Matches(contract_bytes, pb, prefix_str)
             THEN worker' = [worker EXCEPT ![w] =
                    [seen EXCEPT !.st = "returned",
                                 !.fast = TRUE,
                                 !.hit = TRUE,
                                 !.result = <<hex(private_key_bytes),
                                              ChecksumTable[sender_bytes],
                                              ChecksumTable[contract_bytes]>>]]
             ELSE worker' = [worker EXCEPT ![w] =
                    [seen EXCEPT !.fast = FastCheck(contract_bytes, pb),
                                 !.hit = FALSE,
                                 !.i = IF i + 1 < batch_size THEN i + 1 ELSE 0,
                                 !.random_bytes =
                                   IF i + 1 < batch_size THEN @ ELSE None,
                                 !.batch_start =
                                   IF i + 1 < batch_size THEN @ ELSE @ + BATCH_SIZE]]
  /\ UNCHANGED <<probe, inputs, vanity_prefix, chunk_size, prefix_bytes, deployer_bytes,
                 bytecode_bytes, args, pc, pool, now, start_time, last_print,
                 iterations, rounds, results, returned, raised, printed>>

\* vanity_create2.generate_random_salt_bytes
generate_random_salt_bytes == urandom(KEY_LEN)

\* vanity_create2.search_chunk: the budget is exhausted and None is returned,
\* or one iteration of the loop runs
SearchChunkCreate2(w) ==
  /\ mode = "create2"
  /\ worker[w].st = "running"
  /\ LET db == worker[w].task[1]
         bb == worker[w].task[2]
         prefix_str == worker[w].task[3]
         budget == worker[w].task[4]
     IN  IF worker[w].i >= budget
           THEN worker' = [worker EXCEPT ![w] = WorkerReturn(w, None)]
           ELSE \E salt_bytes \in generate_random_salt_bytes :
                  LET address_bytes == Create2Of[<<db, salt_bytes, bb>>]
                      seen == [worker[w] EXCEPT !.examined = @ + 1,
                                                !.cand = salt_bytes]
                  IN  IF MatchesCreate2(address_bytes, prefix_str)
                        THEN worker' = [worker EXCEPT ![w] =
                               [seen EXCEPT !.st = "returned",
                                            !.hit = TRUE,
                                            !.result = hex(salt_bytes)]]
                        ELSE worker' = [worker EXCEPT ![w] =
                               [seen EXCEPT !.hit = FALSE, !.i = @ + 1]]
  /\ UNCHANGED <<probe, inputs, vanity_prefix, chunk_size, prefix_bytes, deployer_bytes,
                 bytecode_bytes, args, pc, pool, now, start_time, last_print,
                 iterations, rounds, results, returned, raised, printed>>

(***************************************************************************)
(* Coordinator: COLLECT                                                    *)
(***************************************************************************)

\* the wait ends as soon as a collected result is a match
RoundCompleteOnFirstMatch ==
  \/ Len(results) = num_processes
  \/ \E k \in 1..Len(results) : results[k] # None

\* list(...) has consumed the result of every task of the round
RoundComplete == Len(results) = num_processes

\* a collection that swallows a task's exception and records None for it
AwaitResultSkipFailed ==
  /\ pc = "collect"
  /\ ~RoundComplete
  /\ LET k == Len(results) + 1
     IN  /\ worker[k].st \in {"returned", "raised"}
         /\ results' = Append(results, worker[k].result)
         /\ pc' = pc
  /\ UNCHANGED <<probe, inputs, vanity_prefix, chunk_size, prefix_bytes, deployer_bytes,
                 bytecode_bytes, args, pool, now, start_time, last_print,
                 iterations, rounds, worker, returned, raised, printed>>

\* list(executor.map(...)) takes the next future's outcome, in task order: a
\* returned value is appended, a raised exception propagates out of the loop
AwaitResult ==
  /\ pc = "collect"
  /\ ~RoundComplete
  /\ LET k == Len(results) + 1
     IN  /\ worker[k].st \in {"returned", "raised"}
         /\ IF worker[k].st = "returned"
              THEN /\ results' = Append(results, worker[k].result)
                   /\ pc' = pc
              ELSE /\ results' = results
                   /\ pc' = "unwinding"
  /\ UNCHANGED <<probe, inputs, vanity_prefix, chunk_size, prefix_bytes, deployer_bytes,
                 bytecode_bytes, args, pool, now, start_time, last_print,
                 iterations, rounds, worker, returned, raised, printed>>

\* the increment without the worker count
IterationsPerWorker(n) == n + chunk_size

\* iterations += chunk_size * num_processes
IterationsAfterRound(n) == n + chunk_size * num_processes

\* the list is complete: the round is accounted for.  The clock has advanced
\* while the coordinator was blocked; the first round, which spawns the worker
\* processes, takes at least one tick
RoundCollected ==
  /\ pc = "collect"
  /\ RoundComplete
  /\ iterations' = IterationsAfterRound(iterations)
  /\ rounds' = rounds + 1
  /\ \E d \in 0..MaxRoundTicks :
       /\ rounds = 0 => d >= 1
       /\ now' = now + d
  /\ pc' = "inspect"
  /\ UNCHANGED <<probe, inputs, vanity_prefix, chunk_size, prefix_bytes, deployer_bytes,
                 bytecode_bytes, args, pool, start_time, last_print, results,
                 worker, returned, raised, printed>>

\* the exception leaves the with block: shutdown(wait=True) waits for the
\* tasks still running, then find_vanity_address_parallel raises
PoolExitOnError ==
  /\ pc = "unwinding"
  /\ \A w \in Workers : worker[w].st # "running"
  /\ pool' = "shutdown"
  /\ Raise("ValueError: the secret was invalid")
  /\ UNCHANGED <<probe, inputs, vanity_prefix, chunk_size, prefix_bytes, deployer_bytes,
                 bytecode_bytes, args, now, start_time, last_print, iterations,
                 rounds, results, worker, returned, printed>>

(***************************************************************************)
(* Coordinator: FOUND and NOT_FOUND                                        *)
(***************************************************************************)

\* a test that takes only the 3-tuple of vanity_byaddress for a result
TruthyTuple(r) == r # None /\ Len(r) = 3

\* if result: a non-empty tuple or string is true, None is false
Truthy(r) == r # None

\* a scan that keeps the last true result instead of stopping at the first
LastTruthy(rs) ==
  IF \E k \in 1..Len(rs) : Truthy(rs[k])
    THEN CHOOSE k \in 1..Len(rs) :
           Truthy(rs[k]) /\ \A j \in (k + 1)..Len(rs) : ~Truthy(rs[j])
    ELSE 0

\* for result in results: if result: -- the index of the first true result, or 0
FirstTruthy(rs) ==
  IF \E k \in 1..Len(rs) : Truthy(rs[k])
    THEN CHOOSE k \in 1..Len(rs) :
           Truthy(rs[k]) /\ \A j \in 1..(k - 1) : ~Truthy(rs[j])
    ELSE 0

\* a line "Speed: ... iterations/second"; round is the number of rounds
\* collected when it is printed
Report(kind) ==
  [kind |-> kind, iterations |-> iterations, at |-> now,
   speed |-> iterations \div (now - start_time), round |-> rounds]

\* a search that ends at the first true result without handing it back
ReturnValueDropped(result) == None

\* the value returned for a true result
ReturnValue(result) ==
  IF mode = "byaddress"
    THEN result
    ELSE <<result,
           <<"0","x">> \o hex(Create2Of[<<deployer_bytes, fromhex(result),
                                           bytecode_bytes>>])>>

\* a worker returned a result: print the final speed, leave the with block
\* (the pool is shut down) and return
ReturnFound ==
  /\ pc = "inspect"
  /\ FirstTruthy(results) > 0
  /\ printed' = Append(printed, Report("final"))
  /\ returned' = ReturnValue(results[FirstTruthy(results)])
  /\ pool' = "shutdown"
  /\ pc' = "done"
  /\ UNCHANGED <<probe, inputs, vanity_prefix, chunk_size, prefix_bytes, deployer_bytes,
                 bytecode_bytes, args, now, start_time, last_print, iterations,
                 rounds, results, worker, raised>>

\* the condition under which a NOT_FOUND round prints progress:
\*   byaddress: current_time - last_print >= print_interval
\*   create2:   iterations % 1_000_000 == 0
PrintsProgress ==
  IF mode = "byaddress"
    THEN now - last_print >= print_interval
    ELSE iterations % PROGRESS_EVERY = 0

\* no worker returned a result: print progress when due, then loop
ReportProgress ==
  /\ pc = "inspect"
  /\ FirstTruthy(results) = 0
  /\ IF PrintsProgress
       THEN /\ printed' = Append(printed, Report("progress"))
            /\ last_print' = IF mode = "byaddress" THEN now ELSE last_print
       ELSE UNCHANGED <<printed, last_print>>
  /\ pc' = "map"
  /\ UNCHANGED <<probe, inputs, vanity_prefix, chunk_size, prefix_bytes, deployer_bytes,
                 bytecode_bytes, args, pool, now, start_time, iterations, rounds,
                 results, worker, returned, raised>>

(***************************************************************************)
(* Specification                                                           *)
(***************************************************************************)

Next ==
  \/ FindInitByAddress
  \/ FindInitCreate2
  \/ Dispatch
  \/ \E w \in Workers : SearchChunkBatch(w)
  \/ \E w \in Workers : SearchChunkExamine(w)
  \/ \E w \in Workers : SearchChunkCreate2(w)
  \/ AwaitResult
  \/ RoundCollected
  \/ PoolExitOnError
  \/ ReturnFound
  \/ ReportProgress

Spec == Init /\ [][Next]_vars

\* the coordinator and the worker processes keep running while they can
LiveSpec == Spec /\ WF_vars(Next)

(***************************************************************************)
(* The legacy derivation called on its own                                 *)
(***************************************************************************)

\* the all-zero sender
ZeroAddress == [i \in 1..ADDR_LEN |-> 0]

\* sender arguments: the senders of the valid draws and the all-zero sender
SenderInputs == {SenderOf[k] : k \in DOMAIN ContractOf} \cup {ZeroAddress}

\* nonce arguments
NonceInputs == (-1)..MaxNonce

\* nothing has been called
DeriveInit ==
  /\ Init
  /\ mode = "byaddress"
  /\ prefix_arg = <<>>
  /\ num_processes = 0
  /\ chunk_size = 0

\* get_contract_address(sender_bytes, nonce), the nonce given by the caller
CallGetContractAddress ==
  /\ probe = None
  /\ \E sender_bytes \in SenderInputs, nonce \in NonceInputs :
       probe' = [by |-> "caller", sender |-> sender_bytes, nonce |-> nonce,
                 hashed |-> ContractPreimage(sender_bytes, nonce),
                 out |-> get_contract_address(sender_bytes, nonce)]
  /\ UNCHANGED <<inputs, vanity_prefix, chunk_size, prefix_bytes, deployer_bytes,
                 bytecode_bytes, args, pc, pool, now, start_time, last_print,
                 iterations, rounds, results, worker, returned, raised, printed>>

\* search_chunk, the derivation of one candidate:
\*   sender_bytes = generate_address_from_private_key(private_key_bytes)
\*   contract_bytes = get_contract_address(sender_bytes)
\* the nonce takes its default
DeriveCandidate ==
  /\ probe = None
  /\ \E private_key_bytes \in DOMAIN ContractOf :
       LET sender_bytes == SenderOf[private_key_bytes]
       IN  probe' = [by |-> "search_chunk", sender |-> sender_bytes, nonce |-> 0,
                     hashed |-> ContractPreimage(sender_bytes, 0),
                     out |-> ContractOf[private_key_bytes]]
  /\ UNCHANGED <<inputs, vanity_prefix, chunk_size, prefix_bytes, deployer_bytes,
                 bytecode_bytes, args, pc, pool, now, start_time, last_print,
                 iterations, rounds, results, worker, returned, raised, printed>>

DeriveNext ==
  \/ CallGetContractAddress
  \/ DeriveCandidate

DeriveSpec == DeriveInit /\ [][DeriveNext]_vars

(***************************************************************************)
(* Properties                                                              *)
(***************************************************************************)

\* the requested prefix with the marker
RequestedPrefix == NormalizePrefix(prefix_arg)

\* the address a search derives from the secret material `secret`
DerivedAddress(secret) ==
  IF mode = "byaddress"
    THEN ContractOf[secret]
    ELSE Create2Of[<<deployer_bytes, secret, bytecode_bytes>>]

\* C1: whenever find_vanity_address_parallel has returned, in either mode, the
\* checksum encoding of the returned contract address starts, case-sensitively,
\* with the '0x'-prefixed requested prefix, and the returned address is the one
\* derived from the returned private key or salt in the search's context.
C1_ReturnedAddressMatches ==
  pc = "done" =>
    LET secret == fromhex(returned[1])
        shown == IF mode = "byaddress" THEN returned[3] ELSE returned[2]
        address == fromhex(Drop(shown, 2))
    IN  /\ secret # ValueError
        /\ address = DerivedAddress(secret)
        /\ SubSeq(ChecksumTable[address], 1, Len(RequestedPrefix)) = RequestedPrefix
        /\ mode = "byaddress" =>
             /\ returned[3] = ChecksumTable[address]
             /\ returned[2] = ChecksumTable[SenderOf[secret]]

\* a search for a prefix given without the marker, with an uppercase-sensitive
\* letter, has returned
C1_Witness ==
  /\ pc = "done"
  /\ prefix_arg = <<"b","8">>
  /\ mode = "byaddress"

\* C2: the candidate filter answers true exactly when the checksum string of
\* the candidate's address starts with the prefix: the byte-level stage passes
\* every true match, and a candidate it passes wrongly is rejected by the
\* case-sensitive stage.
C2_FilterSound ==
  \A w \in Workers :
    (worker[w].cand # None /\ worker[w].st # "raised") =>
      LET truly == SubSeq(ChecksumTable[DerivedAddress(worker[w].cand)], 1,
                          Len(vanity_prefix)) = vanity_prefix
      IN  /\ worker[w].hit <=> truly
          /\ (mode = "byaddress" /\ truly) => worker[w].fast

\* a candidate passed the byte-level stage and was rejected by the checksum stage
C2_Witness ==
  \E w \in Workers :
    /\ mode = "byaddress"
    /\ worker[w].cand # None
    /\ worker[w].fast
    /\ ~worker[w].hit

\* the requested prefix has length 0: only the marker remains
EmptyPrefix == Len(RequestedPrefix) = 2

\* some worker of the current round raised
AnyRaised == \E w \in Workers : worker[w].st = "raised"

\* C3 as stated: with a prefix of length 0 the search returns a result after
\* exactly one round, for every iteration budget and every worker count for
\* which the pool was opened.
C3_AsStated ==
  (EmptyPrefix /\ pool # "none") =>
    /\ rounds <= 1
    /\ pc \notin {"unwinding", "error"}
    /\ rounds = 1 => (pc \in {"inspect", "done"} /\ FirstTruthy(results) > 0)

\* C3, amended: with a prefix of length 0 and an iteration budget of at least
\* 1 the search ends in its first round: no second round is dispatched, the
\* round's results hold a match and it is returned, unless a worker raised in
\* that round, which ends the search with the error.
C3_EmptyPrefixOneRound ==
  (EmptyPrefix /\ pool # "none" /\ chunk_size >= 1) =>
    /\ rounds <= 1
    /\ rounds = 1 => (pc \in {"inspect", "done"} /\ FirstTruthy(results) > 0)
    /\ pc \in {"unwinding", "error"} => (rounds = 0 /\ AnyRaised)
    /\ \A w \in Workers : worker[w].examined <= 1

\* an empty-prefix search with the largest budget and two workers returned
\* after its first round
C3_Witness ==
  /\ EmptyPrefix
  /\ pc = "done"
  /\ rounds = 1
  /\ num_processes >= 2
  /\ chunk_size >= 2
  /\ returned # None

\* the requested prefixes that hold, after the marker, a character that is
\* neither a hexadecimal digit nor a blank: no reading of them is hexadecimal
BadPrefixes ==
  {p \in PrefixInputs :
     \E n \in 3..Len(NormalizePrefix(p)) :
       HexVal(NormalizePrefix(p)[n]) < 0 /\ NormalizePrefix(p)[n] # " "}

\* the deployer and bytecode arguments bytes.fromhex does not decode
BadDeployers == {d \in DeployerInputs : DeployerBytes(d) = ValueError}

BadBytecodes == {b \in BytecodeInputs : fromhex(b) = ValueError}

\* an argument of the call is not valid hexadecimal
InvalidInput ==
  \/ prefix_arg \in BadPrefixes
  \/ mode = "create2" /\ (deployer \in BadDeployers \/ bytecode \in BadBytecodes)

\* C4 as stated: in both modes an argument that does not decode as
\* hexadecimal makes the call fail at INIT: the pool is never opened, no round
\* is dispatched, no worker runs, and the call ends with the error.
C4_InvalidInputFailsAtInit ==
  InvalidInput =>
    /\ pc \in {"init", "error"}
    /\ pool = "none"
    /\ rounds = 0
    /\ \A w \in Workers : worker[w].st = "idle"

\* C5: every throughput report, progress or final, uses an iteration count
\* equal to rounds collected * per-round budget * worker count, the round of
\* the match included.
C5_ThroughputAccounting ==
  \A n \in 1..Len(printed) :
    printed[n].iterations = printed[n].round * chunk_size * num_processes

\* a search with two workers printed progress and then its final report
C5_Witness ==
  /\ num_processes = 2
  /\ chunk_size >= 2
  /\ Len(printed) >= 2
  /\ printed[1].kind = "progress"
  /\ printed[Len(printed)].kind = "final"
  /\ printed[Len(printed)].round >= 2

\* C6: the coordinator inspects a round's results, and returns one, only when
\* every worker of the round has returned; each result it holds is the value
\* that worker returned, and a worker that returned no match has examined its
\* full iteration budget.
C6_RoundBarrier ==
  pc \in {"inspect", "done"} =>
    /\ Len(results) = num_processes
    /\ \A w \in Workers :
         /\ worker[w].st = "returned"
         /\ results[w] = worker[w].result
         /\ worker[w].result = None => worker[w].examined = chunk_size

\* a result of the first worker was returned after the second worker had run
\* its whole budget without a match
C6_Witness ==
  /\ pc = "done"
  /\ num_processes = 2
  /\ chunk_size >= 2
  /\ worker[1].result # None
  /\ worker[2].result = None
  /\ worker[2].examined = chunk_size

\* a worker of the current round returned a matching candidate
MatchDrawn == \E w \in Workers : worker[w].st = "returned" /\ worker[w].result # None

\* the model stopped dispatching: the bound on rounds, not the program
Capped == pc = "map" /\ rounds >= MaxRounds

\* C7: every collected round adds budget * worker count to the iteration count
\* and then either returns a result or goes back to dispatch, which follows;
\* if some worker eventually draws a matching candidate and no worker raises,
\* the search eventually returns a result; the search stops nowhere but at
\* the returned result or at a fatal error.
C7_EventualDiscovery ==
  /\ [][rounds' # rounds =>
          /\ rounds' = rounds + 1
          /\ iterations' = iterations + chunk_size * num_processes]_vars
  /\ [][(pc = "inspect" /\ pc' # "inspect") =>
          \/ pc' = "done" /\ returned' # None
          \/ pc' = "map" /\ returned' = None]_vars
  /\ (pc = "map" /\ ~Capped) ~> (pc = "collect")
  /\ (<>MatchDrawn /\ []~AnyRaised) => <>(pc = "done" /\ returned # None)
  /\ [](pc = "done" <=> returned # None)
  /\ [](pc = "error" <=> raised # NoError)
  /\ []((pc \notin {"done", "error"} /\ ~Capped) => ENABLED Next)

\* a search returned a result in a round after a round without a match
C7_Witness ==
  /\ pc = "done"
  /\ rounds >= 2
  /\ returned # None
  /\ iterations = rounds * chunk_size * num_processes

\* C8: once a worker of a round has raised, the search ends with an error: no
\* result is returned, also when another worker of the round returned a
\* match, the round is not inspected, nothing is dispatched again, and the
\* failed task stays failed.
C8_WorkerFailureFatal ==
  /\ AnyRaised =>
       /\ pc \in {"collect", "unwinding", "error"}
       /\ returned = None
  /\ (pc = "error" /\ pool = "shutdown") =>
       /\ AnyRaised
       /\ returned = None
       /\ \A w \in Workers : worker[w].st # "running"

\* the search ended with the error of the second worker although the first
\* worker had returned a match, which was already collected
C8_Witness ==
  /\ pc = "error"
  /\ num_processes = 2
  /\ worker[1].result # None
  /\ Len(results) = 1
  /\ worker[2].st = "raised"
  /\ returned = None

\* the byte string hashed for the salt `salt` in the context of a task
HashedFor(db, salt, bb) == Create2Preimage(db, salt, bb)

\* the shape C9 states: 0xff, 20 deployer bytes, 32 salt bytes, 32 hash bytes
Create2Shape(h, db, salt, bb) ==
  /\ Len(h) = 1 + ADDR_LEN + KEY_LEN + HASH_LEN
  /\ Len(db) = ADDR_LEN
  /\ Len(salt) = KEY_LEN
  /\ Len(bb) = HASH_LEN
  /\ h = <<255>> \o db \o salt \o bb

\* C9 as stated: for every candidate a CREATE2 search examines, and for the
\* address it returns, the hashed byte string is 0xff, the 20 deployer bytes,
\* the 32 salt bytes and the 32-byte init-code hash, 85 bytes in that order,
\* for every deployer and bytecode argument INIT accepts.
C9_Create2HashInput ==
  mode = "create2" =>
    /\ \A w \in Workers :
         worker[w].cand # None =>
           Create2Shape(HashedFor(worker[w].task[1], worker[w].cand, worker[w].task[2]),
                        worker[w].task[1], worker[w].cand, worker[w].task[2])
    /\ pc = "done" =>
         Create2Shape(HashedFor(deployer_bytes, fromhex(returned[1]), bytecode_bytes),
                      deployer_bytes, fromhex(returned[1]), bytecode_bytes)

\* C10 as stated: in both modes two consecutive progress reports are at least
\* one reporting interval apart, whatever the worker count and the duration
\* of a round.
C10_ProgressRateBounded ==
  \A n \in 1..(Len(printed) - 1) :
    (printed[n].kind = "progress" /\ printed[n + 1].kind = "progress") =>
      printed[n + 1].at - printed[n].at >= print_interval

\* the secret (private key or salt), as text, inside a result of search_chunk
SecretText(r) == IF mode = "byaddress" THEN r[1] ELSE r

\* the draw c is valid and its address passes the filter of the search
PassedFilter(c) ==
  /\ mode = "byaddress" => SenderOf[c] # ValueError
  /\ startswith(ChecksumTable[DerivedAddress(c)], vanity_prefix)

\* the text t is held in a worker's return value or by the coordinator
HeldOutsideIteration(t) ==
  \/ \E w \in Workers : worker[w].result # None /\ SecretText(worker[w].result) = t
  \/ \E k \in 1..Len(results) : results[k] # None /\ SecretText(results[k]) = t
  \/ returned # None /\ returned[1] = t

\* the fields of a printed line: counters and the clock, no key material
ReportFields == {"kind", "iterations", "at", "speed", "round"}

\* C11: the only secrets found in a worker's return value, in the results the
\* coordinator collected, in the value it returns or in a printed line are
\* those of candidates that passed the filter: a non-matching draw is in none
\* of them, every returned result carries a drawn secret that matched, and
\* the printed lines carry counters only.
C11_NonMatchingDiscarded ==
  /\ \A c \in Candidates : HeldOutsideIteration(hex(c)) => PassedFilter(c)
  /\ \A w \in Workers :
       worker[w].result # None =>
         \E c \in Candidates : SecretText(worker[w].result) = hex(c)
  /\ \A n \in 1..Len(printed) :
       /\ DOMAIN printed[n] = ReportFields
       /\ printed[n].kind \in {"progress", "final"}
       /\ {printed[n].iterations, printed[n].at, printed[n].speed,
           printed[n].round} \subseteq Nat

\* a search returned in a later round, after a worker examined candidates that
\* did not match and returned nothing
C11_Witness ==
  /\ pc = "done"
  /\ rounds >= 2
  /\ \E w \in Workers :
       worker[w].result = None /\ worker[w].examined >= 1 /\ ~worker[w].hit

\* the phase changes of the coordinator: INIT to DISPATCH or to an error,
\* DISPATCH to COLLECT, COLLECT to the inspection of the results or to the
\* propagation of a worker's exception, inspection to the return (FOUND) or
\* back to DISPATCH (NOT_FOUND, after the report)
PhaseChanges ==
  { <<"init", "map">>, <<"init", "error">>, <<"map", "collect">>,
    <<"collect", "inspect">>, <<"collect", "unwinding">>,
    <<"unwinding", "error">>, <<"inspect", "done">>, <<"inspect", "map">> }

\* the last dispatched round is over: its results were inspected, or the
\* pool was shut down on the way out
RoundEnded == (pc = "map" /\ rounds >= 1) \/ pool = "shutdown"

\* some worker of the last dispatched round returned a non-absent result
SomeWorkerMatched ==
  \E w \in Workers : worker[w].st = "returned" /\ worker[w].result # None

\* C12 as stated: a round ends in FOUND if and only if at least one worker of
\* that round returned a non-absent result.
C12_AsStated == RoundEnded => (pc = "done" <=> SomeWorkerMatched)

\* C12, amended: the coordinator moves INIT -> DISPATCH -> COLLECT -> (FOUND |
\* NOT_FOUND -> DISPATCH), leaving this path only by an error at INIT or by a
\* worker's exception during COLLECT; a round in which no worker raised ends
\* in FOUND if and only if a worker of the round returned a non-absent result,
\* and a round in which a worker raised ends in the error; after FOUND nothing
\* is dispatched and the pool is shut down when the result is returned; after
\* NOT_FOUND the coordinator is back at DISPATCH, which can be taken.
C12_StateMachine ==
  /\ [][pc' # pc => <<pc, pc'>> \in PhaseChanges]_vars
  /\ []((RoundEnded /\ ~AnyRaised) => (pc = "done" <=> SomeWorkerMatched))
  /\ []((RoundEnded /\ AnyRaised) => pc = "error")
  /\ [](pc = "done" => (pool = "shutdown" /\ returned # None))
  /\ [][pc = "done" => (pc' = "done" /\ rounds' = rounds /\ worker' = worker)]_vars
  /\ [][(pc = "inspect" /\ pc' # pc /\ FirstTruthy(results) = 0) =>
          (pc' = "map" /\ pool' = "open")]_vars
  /\ []((pc = "map" /\ ~Capped) => ENABLED Dispatch)

\* a NOT_FOUND round was followed by the dispatch of a round that ended in FOUND
C12_Witness ==
  /\ pc = "done"
  /\ rounds >= 2
  /\ Len(printed) >= 2
  /\ SomeWorkerMatched

\* the iteration budget in the task of worker w
Budget(w) == IF mode = "byaddress" THEN worker[w].task[3] ELSE worker[w].task[4]

\* C13: a call of search_chunk with budget n has examined at most n
\* candidates; while it runs, no candidate examined so far matched; it returns
\* a result only for the candidate examined last, which matched; and it
\* returns None only after exactly n candidates, none of which matched.
C13_SearchLoopBudget ==
  \A w \in Workers :
    worker[w].st \in {"running", "returned"} =>
      /\ worker[w].examined <= Budget(w)
      /\ worker[w].examined >= 1 => (worker[w].hit <=> PassedFilter(worker[w].cand))
      /\ (worker[w].st = "running" /\ worker[w].examined >= 1) => ~worker[w].hit
      /\ (worker[w].st = "returned" /\ worker[w].result # None) =>
           /\ worker[w].hit
           /\ SecretText(worker[w].result) = hex(worker[w].cand)
      /\ (worker[w].st = "returned" /\ worker[w].result = None) =>
           /\ worker[w].examined = Budget(w)
           /\ worker[w].examined >= 1 => ~worker[w].hit

\* a budget that is not a multiple of the batch size was exhausted, and
\* another worker returned at its first candidate
C13_Witness ==
  /\ mode = "byaddress"
  /\ chunk_size % BATCH_SIZE # 0
  /\ chunk_size > BATCH_SIZE
  /\ \E w \in Workers :
       /\ worker[w].st = "returned"
       /\ worker[w].result = None
       /\ worker[w].examined = chunk_size
  /\ \E w \in Workers :
       /\ worker[w].st = "returned"
       /\ worker[w].result # None
       /\ worker[w].examined < chunk_size

RECURSIVE UnbatchedFrom(_, _, _, _, _)
\* a search loop without batches, from iteration k on: each iteration takes
\* the next 32 bytes of the stream for its candidate
UnbatchedFrom(stream, k, pb, prefix_str, n) ==
  IF k >= n THEN None
  ELSE LET private_key_bytes == SubSeq(stream, k * KEY_LEN + 1, (k + 1) * KEY_LEN)
       IN  IF SenderOf[private_key_bytes] = ValueError THEN ValueError
           ELSE IF Matches(ContractOf[private_key_bytes], pb, prefix_str)
             THEN <<hex(private_key_bytes),
                    ChecksumTable[SenderOf[private_key_bytes]],
                    ChecksumTable[ContractOf[private_key_bytes]]>>
             ELSE UnbatchedFrom(stream, k + 1, pb, prefix_str, n)

\* the outcome of the unbatched loop for a task: a result, None, or the error
UnbatchedSearch(stream, task) == UnbatchedFrom(stream, 0, task[1], task[2], task[3])

\* C14: on the random bytes its batches fetched, the batched search_chunk
\* ends as the unbatched loop does on the same bytes: the same result, None
\* or exception; the k-th candidate examined is the k-th 32-byte slice of the
\* bytes fetched, so no byte belongs to two candidates, and no more bytes are
\* fetched than the budget needs.
C14_BatchingUnobservable ==
  mode = "byaddress" =>
    \A w \in Workers :
      LET wk == worker[w]
      IN  wk.st # "idle" =>
            /\ Len(wk.drawn) % KEY_LEN = 0
            /\ Len(wk.drawn) <= KEY_LEN * wk.task[3]
            /\ wk.examined * KEY_LEN <= Len(wk.drawn)
            /\ wk.examined >= 1 =>
                 wk.cand = SubSeq(wk.drawn, (wk.examined - 1) * KEY_LEN + 1,
                                  wk.examined * KEY_LEN)
            /\ wk.st = "returned" => wk.result = UnbatchedSearch(wk.drawn, wk.task)
            /\ wk.st = "raised" => UnbatchedSearch(wk.drawn, wk.task) = ValueError

\* a worker returned the second key of a batch, which differs from the first
C14_Witness ==
  \E w \in Workers :
    /\ mode = "byaddress"
    /\ worker[w].st = "returned"
    /\ worker[w].result # None
    /\ worker[w].examined = 2
    /\ SubSeq(worker[w].drawn, 1, KEY_LEN) # worker[w].cand

\* the result the coordinator selected, as the worker returned it
SelectedResult == IF mode = "byaddress" THEN returned ELSE returned[1]

\* C15: when the search has returned, the results were collected in task
\* order, and the result selected is the one of the lowest-indexed worker of
\* the round that returned a non-absent result: one result, returned by a
\* worker of that round (in CREATE2 mode handed back together with the
\* address recomputed from it).
C15_FirstResultSelected ==
  pc = "done" =>
    /\ Len(results) = num_processes
    /\ \A k \in Workers : results[k] = worker[k].result
    /\ \E k \in Workers :
         /\ worker[k].st = "returned"
         /\ worker[k].result # None
         /\ \A j \in 1..(k - 1) : worker[j].result = None
         /\ SelectedResult = worker[k].result
    /\ mode = "create2" =>
         returned = <<SelectedResult,
                      <<"0","x">> \o hex(DerivedAddress(fromhex(SelectedResult)))>>

\* two workers of the round returned different matches and the search returned
C15_Witness ==
  /\ pc = "done"
  /\ num_processes = 2
  /\ worker[1].result # None
  /\ worker[2].result # None
  /\ worker[1].result # worker[2].result

\* the task INIT builds from the arguments of the search
TaskOfSearch ==
  IF mode = "byaddress"
    THEN <<prefix_bytes, vanity_prefix, chunk_size>>
    ELSE <<deployer_bytes, bytecode_bytes, vanity_prefix, chunk_size>>

\* C16: once INIT has opened the pool, the task list holds one task per
\* worker, all equal and built from the prefix, the context and the budget;
\* no step after INIT changes the list; and in every round every worker runs
\* the task the list holds for it, from dispatch to return, so each round
\* dispatches the same tasks as the first.
C16_TaskImmutability ==
  /\ [](pool # "none" =>
         /\ Len(args) = num_processes
         /\ \A w \in Workers : args[w] = TaskOfSearch)
  /\ [][pc # "init" => args' = args]_vars
  /\ [](\A w \in Workers : worker[w].st # "idle" => worker[w].task = args[w])
  /\ [][pc = "map" /\ pc' = "collect" =>
          \A w \in Workers : worker'[w].st = "running" /\ worker'[w].task = args[w]]_vars

\* a third round runs on two workers, after two rounds and a progress report
C16_Witness ==
  /\ pc = "collect"
  /\ rounds = 2
  /\ num_processes = 2
  /\ Len(printed) >= 1
  /\ \A w \in Workers : worker[w].st = "running" /\ worker[w].examined >= 1

\* the nonce fits one byte
FitsOneByte(nonce) == nonce \in 0..255

\* C17: for a nonce that fits one byte, get_contract_address hashes the 23
\* bytes 0xd6 0x94, the 20 sender bytes and one nonce byte, 0x80 for nonce 0
\* and the nonce itself otherwise, and returns the last 20 bytes of the hash;
\* the derivation of a candidate in search_chunk is the one with nonce 0.
C17_LegacyHashInput ==
  probe # None =>
    /\ FitsOneByte(probe.nonce) =>
         /\ Len(probe.hashed) = 23
         /\ SubSeq(probe.hashed, 1, 2) = <<214, 148>>
         /\ SubSeq(probe.hashed, 3, 22) = probe.sender
         /\ probe.hashed[23] = IF probe.nonce = 0 THEN 128 ELSE probe.nonce
         /\ probe.out = Last(keccak(probe.hashed), ADDR_LEN)
    /\ probe.by = "search_chunk" =>
         /\ probe.nonce = 0
         /\ probe.out = Last(keccak(<<214, 148>> \o probe.sender \o <<128>>), ADDR_LEN)

\* the derivation was called with a non-zero one-byte nonce on a derived sender
C17_Witness ==
  /\ probe # None
  /\ probe.by = "caller"
  /\ probe.nonce = 200
  /\ probe.sender # ZeroAddress
  /\ probe.hashed[23] = 200

\* C18 as stated: for a fixed sender, two distinct nonces in 0..255 never give
\* the same hash input.
C18_NonceInjective ==
  (probe # None /\ FitsOneByte(probe.nonce)) =>
    \A other \in 0..255 :
      other # probe.nonce => ContractPreimage(probe.sender, other) # probe.hashed

====
